---- MODULE Spec2Model ----
(***************************************************************************)
(* Model of the SIMD bit-reversal primitive over packed M31 lanes          *)
(* (core/backend/simd/bit_reverse.rs) and of the constant multilinear      *)
(* polynomial (core/air/mod.rs).                                           *)
(*                                                                         *)
(* A packed lane (PackedBaseField) is a function 0..15 -> value; a slice   *)
(* of lanes is a function 0..len-1 -> lane.  Element e of the unpacked     *)
(* view lives in lane e \div 16 at position e % 16.                        *)
(***************************************************************************)
EXTENDS Integers, Sequences, FiniteSets, TLC

\* ------------------------------------------------------------------------
\* Program constants
\* ------------------------------------------------------------------------
VEC_BITS == 4

W_BITS == 3

MIN_LOG_SIZE == 2 * W_BITS + VEC_BITS

\* Number of elements of one packed lane, 2^VEC_BITS.
N_LANES == 2 ^ VEC_BITS

\* ------------------------------------------------------------------------
\* Bounds of the model
\* ------------------------------------------------------------------------
\* Largest log2 of the slice length (in lanes) explored by Spec.
MaxLogSize == 12

\* Largest log2 of the slice length explored by SpecPar.
MaxParLogSize == 12

\* Workers of SpecPar: each takes the next value of a from a shared counter and
\* runs its iteration, so the next iteration to run is any of the ParWorkers
\* smallest values of a not yet run.
ParWorkers == 2

\* Number of successive calls of bit_reverse_m31 on the same slice.
MaxCalls == 2

\* Input patterns 0..MaxSeed of the slice handed to bit_reverse_m31.
MaxSeed == 1

\* Input patterns 0..MaxBlockSeed of the block handed to bit_reverse16.
MaxBlockSeed == 11

\* Longest evaluation point handed to ConstantPolynomial::eval.
MaxPointLen == 8

\* Lengths the entry assertions reject: empty, not a power of two, too small.
InvalidLens == {0, 1, 3, 512, 1000, 1536}

\* ------------------------------------------------------------------------
\* Integer helpers (u32 / usize operations used by the code)
\* ------------------------------------------------------------------------
Shl(x, k) == x * (2 ^ k)

RECURSIVE BitOr(_, _)
BitOr(x, y) ==
    IF x = 0 THEN y
    ELSE IF y = 0 THEN x
    ELSE (IF x % 2 = 1 \/ y % 2 = 1 THEN 1 ELSE 0) + 2 * BitOr(x \div 2, y \div 2)

RECURSIVE CountOnes(_)
CountOnes(n) == IF n = 0 THEN 0 ELSE (n % 2) + CountOnes(n \div 2)

\* usize::is_power_of_two: exactly one bit set (false for 0).
IsPowerOfTwo(n) == CountOnes(n) = 1

\* usize::ilog2: floor of the base-2 logarithm, for n > 0.
RECURSIVE Ilog2(_)
Ilog2(n) == IF n <= 1 THEN 0 ELSE 1 + Ilog2(n \div 2)

\* x.reverse_bits() >> (BITS - k): bit b of x (b < k) lands at bit k-1-b, the
\* bits b >= k are shifted out.  Computed bit by bit; the intermediate
\* 32/64-bit word is never built.
RECURSIVE ReverseBitsShr(_, _)
ReverseBitsShr(x, k) ==
    IF k = 0 THEN 0
    ELSE (x % 2) * (2 ^ (k - 1)) + ReverseBitsShr(x \div 2, k - 1)

\* crate::core::utils::bit_reverse_index(i, log_size).
bit_reverse_index(i, log_size) ==
    IF log_size = 0 THEN i ELSE ReverseBitsShr(i, log_size)

\* ------------------------------------------------------------------------
\* Swizzles and the 16x16 block bit reversal
\* ------------------------------------------------------------------------
Lane == 0 .. (N_LANES - 1)

\* INDEX table of LoLoInterleaveHiLo: interleaves the low halves of two lanes.
LoLoInterleaveHiLo == [i \in Lane |-> (i % 2) * N_LANES + (i \div 2)]

\* INDEX table of LoHiInterleaveHiHi: interleaves the high halves of two lanes.
LoHiInterleaveHiHi == [i \in Lane |-> (i % 2) * N_LANES + (i \div 2) + (N_LANES \div 2)]

\* A plausible slip: the two operands of the swizzle exchanged.
ConcatSwizzleSwapped(INDEX, x, y) ==
    [i \in Lane |-> IF INDEX[i] < N_LANES THEN y[INDEX[i]] ELSE x[INDEX[i] - N_LANES]]

\* Swizzle::concat_swizzle(x, y): out[i] = concat(x, y)[INDEX[i]].
ConcatSwizzle(INDEX, x, y) ==
    [i \in Lane |-> IF INDEX[i] < N_LANES THEN x[INDEX[i]] ELSE y[INDEX[i] - N_LANES]]

\* A plausible slip in the round: the two swizzle groups exchanged.
RoundHiFirst(d) ==
    LET t == << ConcatSwizzle(LoHiInterleaveHiHi, d[0], d[1]),
                ConcatSwizzle(LoHiInterleaveHiHi, d[2], d[3]),
                ConcatSwizzle(LoHiInterleaveHiHi, d[4], d[5]),
                ConcatSwizzle(LoHiInterleaveHiHi, d[6], d[7]),
                ConcatSwizzle(LoHiInterleaveHiHi, d[8], d[9]),
                ConcatSwizzle(LoHiInterleaveHiHi, d[10], d[11]),
                ConcatSwizzle(LoHiInterleaveHiHi, d[12], d[13]),
                ConcatSwizzle(LoHiInterleaveHiHi, d[14], d[15]),
                ConcatSwizzle(LoLoInterleaveHiLo, d[0], d[1]),
                ConcatSwizzle(LoLoInterleaveHiLo, d[2], d[3]),
                ConcatSwizzle(LoLoInterleaveHiLo, d[4], d[5]),
                ConcatSwizzle(LoLoInterleaveHiLo, d[6], d[7]),
                ConcatSwizzle(LoLoInterleaveHiLo, d[8], d[9]),
                ConcatSwizzle(LoLoInterleaveHiLo, d[10], d[11]),
                ConcatSwizzle(LoLoInterleaveHiLo, d[12], d[13]),
                ConcatSwizzle(LoLoInterleaveHiLo, d[14], d[15]) >>
    IN  [j \in Lane |-> t[j + 1]]

\* One iteration of the loop of bit_reverse16: abcd:0123 => 0abc:123d.
Round(d) ==
    LET t == << ConcatSwizzle(LoLoInterleaveHiLo, d[0], d[1]),
                ConcatSwizzle(LoLoInterleaveHiLo, d[2], d[3]),
                ConcatSwizzle(LoLoInterleaveHiLo, d[4], d[5]),
                ConcatSwizzle(LoLoInterleaveHiLo, d[6], d[7]),
                ConcatSwizzle(LoLoInterleaveHiLo, d[8], d[9]),
                ConcatSwizzle(LoLoInterleaveHiLo, d[10], d[11]),
                ConcatSwizzle(LoLoInterleaveHiLo, d[12], d[13]),
                ConcatSwizzle(LoLoInterleaveHiLo, d[14], d[15]),
                ConcatSwizzle(LoHiInterleaveHiHi, d[0], d[1]),
                ConcatSwizzle(LoHiInterleaveHiHi, d[2], d[3]),
                ConcatSwizzle(LoHiInterleaveHiHi, d[4], d[5]),
                ConcatSwizzle(LoHiInterleaveHiHi, d[6], d[7]),
                ConcatSwizzle(LoHiInterleaveHiHi, d[8], d[9]),
                ConcatSwizzle(LoHiInterleaveHiHi, d[10], d[11]),
                ConcatSwizzle(LoHiInterleaveHiHi, d[12], d[13]),
                ConcatSwizzle(LoHiInterleaveHiHi, d[14], d[15]) >>
    IN  [j \in Lane |-> t[j + 1]]

\* The loop `for _ in 0..4` of bit_reverse16, k iterations left.
RECURSIVE Rounds(_, _)
Rounds(d, k) == IF k = 0 THEN d ELSE Rounds(Round(d), k - 1)

\* A plausible slip: one round too few.
bit_reverse16_3rounds(d) == Rounds(d, 3)

bit_reverse16(d) == Rounds(d, 4)

\* ------------------------------------------------------------------------
\* State
\* ------------------------------------------------------------------------
VARIABLES
    len,        \* data.len(), in packed lanes
    data,       \* the slice handed to bit_reverse_m31
    seed,       \* input pattern the slice was filled with before the first call
    pc,         \* "entry", "loop", "done", "panic", "overflow", "ub"
    calls,      \* number of calls of bit_reverse_m31 started on data
    log_size,   \* local log_size
    a_bits,     \* local a_bits
    a, w_l, w_h,\* loop counters of the iteration about to run
    aDone,      \* values of a whose iteration has completed in this call
    sched,      \* "seq": a-loop in program order; "any": a-iterations in any order
    acc,        \* per lane: reads, writes and the a-iterations that touched it (this call)
    lastAcc,    \* lane indices passed to get_unchecked(_mut) by the last iteration
    blk0, blk, prevBlk, rnd, out16, \* bit_reverse16: round by round, and as a whole
    poly, ie, point, result, ppc    \* ConstantPolynomial::eval

vars == << len, seed, data, pc, calls, log_size, a_bits, a, w_l, w_h, aDone,
           sched, acc, lastAcc, blk0, blk, prevBlk, rnd, out16, poly, ie, point, result, ppc >>

mainVars == << len, seed, data, pc, calls, log_size, a_bits, a, w_l, w_h, aDone,
               sched, acc, lastAcc >>

blkVars == << blk0, blk, prevBlk, rnd, out16 >>

polyVars == << poly, ie, point, result, ppc >>

\* ------------------------------------------------------------------------
\* Inputs
\* ------------------------------------------------------------------------
\* The column built by the tests: element e holds BaseField::from(e), packed
\* 16 elements to a lane.
\* Pattern 0 is that column; the other patterns repeat values (period 251).
InputValue(e, s) == IF s = 0 THEN e ELSE (e * (2 * s + 1) + s) % 251

InputData(n, s) ==
    [l \in 0 .. (n - 1) |-> [j \in Lane |-> InputValue(N_LANES * l + j, s)]]

\* 256 elements for bit_reverse16; pattern 0 is the test's [0, 1, .., 255].
BlockValue(e, s) ==
    IF s % 2 = 0 THEN (e * (s + 1) + s) % 256 ELSE (e * s + 5) % 251

InputBlock(s) == [l \in Lane |-> [j \in Lane |-> BlockValue(N_LANES * l + j, s)]]

\* A few secure-field (QM31) values, as 4 base-field coordinates.
SecureOne == << 1, 0, 0, 0 >>

SecureVals == {<< 0, 0, 0, 0 >>, SecureOne, << 2, 3, 5, 7 >>}

PointVals == {<< 0, 0, 0, 0 >>, << 4, 0, 1, 0 >>}

\* InteractionElements: identifier -> secure-field value.
InteractionElementsVals == {<< >>, [alpha |-> << 2, 3, 5, 7 >>]}

RECURSIVE SeqsUpTo(_, _)
SeqsUpTo(S, n) ==
    IF n = 0 THEN {<< >>}
    ELSE LET shorter == SeqsUpTo(S, n - 1)
         IN  shorter \cup {Append(q, x) : q \in {r \in shorter : Len(r) = n - 1}, x \in S}

NoAccess(n) == [l \in 0 .. (n - 1) |-> [rd |-> 0, wr |-> 0, by |-> {}]]

ValidLens(maxLog) == {2 ^ k : k \in MIN_LOG_SIZE .. maxLog}

\* ------------------------------------------------------------------------
\* bit_reverse_m31
\* ------------------------------------------------------------------------
\* A plausible slip: VEC_BITS not subtracted.
ABitsNoVec(ls) == ls - 2 * W_BITS

\* let a_bits = log_size - 2 * W_BITS - VEC_BITS (negative: the u32 underflows).
ABits(ls) == ls - 2 * W_BITS - VEC_BITS

\* A plausible slip: the power-of-two assertion left out.
EntryAssertionsLogOnly(n) == n > 0 /\ Ilog2(n) >= MIN_LOG_SIZE

\* The two assertions at entry.
EntryAssertions(n) == IsPowerOfTwo(n) /\ Ilog2(n) >= MIN_LOG_SIZE

\* let w_l_rev = w_l.reverse_bits() >> (u32::BITS - W_BITS)
WlRev(wl) == ReverseBitsShr(wl, W_BITS)

\* A plausible slip: `for w_h in 0..w_l_rev`.
WhBoundExclusive(wl) == WlRev(wl)

\* Exclusive upper bound of `for w_h in 0..(w_l_rev + 1)`.
WhBound(wl) == WlRev(wl) + 1

\* A plausible slip: a left out of the index.
BlockIdxNoA(wh, av, wl, ab) == BitOr(Shl(Shl(wh, ab), W_BITS), wl)

\* let idx = ((((w_h << a_bits) | a) << W_BITS) | w_l) as usize
\* (below 2^(log_size - VEC_BITS): the u32 arithmetic does not wrap for the
\* sizes explored).
BlockIdx(wh, av, wl, ab) == BitOr(Shl(BitOr(Shl(wh, ab), av), W_BITS), wl)

\* let idx_rev = bit_reverse_index(idx, log_size - VEC_BITS)
BlockIdxRev(idx, ls) == bit_reverse_index(idx, ls - VEC_BITS)

\* A plausible slip: `idx >= idx_rev`, palindromes are skipped too.
SkipTestGe(idx, idxRev) == idx >= idxRev

\* if idx > idx_rev { continue; }
SkipTest(idx, idxRev) == idx > idxRev

\* idx + (i << (2 * W_BITS + a_bits))
LaneIndex(base, i, ab) == base + Shl(i, 2 * W_BITS + ab)

ChunkIndices(base, ab) == {LaneIndex(base, i, ab) : i \in Lane}

InBounds(S, n) == \A x \in S : 0 <= x /\ x < n

\* array::from_fn(|i| *data.get_unchecked(base + (i << (2 * W_BITS + a_bits))))
ReadChunk(d, base, ab) == [i \in Lane |-> d[LaneIndex(base, i, ab)]]

\* Palindrome write-back loop: data[idx + (i << ..)] = values0[i].
RECURSIVE StoreChunk(_, _, _, _, _)
StoreChunk(d, base, vals, ab, i) ==
    IF i = N_LANES THEN d
    ELSE StoreChunk([d EXCEPT ![LaneIndex(base, i, ab)] = vals[i]], base, vals, ab, i + 1)

\* A plausible slip: each block written back to where it was read.
RECURSIVE StoreNoSwap(_, _, _, _, _, _, _)
StoreNoSwap(d, idx, idxRev, values0, values1, ab, i) ==
    IF i = N_LANES THEN d
    ELSE StoreNoSwap([d EXCEPT ![LaneIndex(idx, i, ab)] = values0[i],
                               ![LaneIndex(idxRev, i, ab)] = values1[i]],
                     idx, idxRev, values0, values1, ab, i + 1)

\* Swap loop: data[idx + ..] = values1[i]; data[idx_rev + ..] = values0[i].
RECURSIVE StoreSwap(_, _, _, _, _, _, _)
StoreSwap(d, idx, idxRev, values0, values1, ab, i) ==
    IF i = N_LANES THEN d
    ELSE StoreSwap([d EXCEPT ![LaneIndex(idx, i, ab)] = values1[i],
                             ![LaneIndex(idxRev, i, ab)] = values0[i]],
                   idx, idxRev, values0, values1, ab, i + 1)

\* Access log: the 16 lanes of a chunk read by iteration av.
RECURSIVE LogRead(_, _, _, _, _)
LogRead(ac, base, ab, av, i) ==
    IF i = N_LANES THEN ac
    ELSE LogRead([ac EXCEPT ![LaneIndex(base, i, ab)] =
                      [rd |-> @.rd + 1, wr |-> @.wr, by |-> @.by \cup {av}]],
                 base, ab, av, i + 1)

\* Access log: the 16 lanes of a chunk written by iteration av.
RECURSIVE LogWrite(_, _, _, _, _)
LogWrite(ac, base, ab, av, i) ==
    IF i = N_LANES THEN ac
    ELSE LogWrite([ac EXCEPT ![LaneIndex(base, i, ab)] =
                       [rd |-> @.rd, wr |-> @.wr + 1, by |-> @.by \cup {av}]],
                  base, ab, av, i + 1)

\* The k smallest members of a set of numbers.
SmallestK(S, k) == {x \in S : Cardinality({y \in S : y < x}) < k}

\* Values of a the a-loop may run first / next: `for a in 0u32..(1 << a_bits)`
\* in program order, or handed out to the workers.
FirstAs(ab) ==
    IF sched = "seq" THEN {0} ELSE SmallestK(0 .. (2 ^ ab - 1), ParWorkers)

\* A plausible slip: `for a in 0u32..=(1 << a_bits)`.
NextAsInclusive ==
    IF sched = "seq"
    THEN (IF a + 1 <= 2 ^ a_bits THEN {a + 1} ELSE {})
    ELSE SmallestK((0 .. (2 ^ a_bits - 1)) \ (aDone \cup {a}), ParWorkers)

NextAs ==
    IF sched = "seq"
    THEN (IF a + 1 < 2 ^ a_bits THEN {a + 1} ELSE {})
    ELSE SmallestK((0 .. (2 ^ a_bits - 1)) \ (aDone \cup {a}), ParWorkers)

\* Loop control: the next (a, w_l, w_h), or the end of the function.
Advance ==
    IF w_h + 1 < WhBound(w_l)
    THEN /\ w_h' = w_h + 1
         /\ UNCHANGED << a, w_l, aDone, pc >>
    ELSE IF w_l + 1 < 2 ^ W_BITS
    THEN /\ w_l' = w_l + 1
         /\ w_h' = 0
         /\ UNCHANGED << a, aDone, pc >>
    ELSE IF NextAs = {}
    THEN /\ pc' = "done"
         /\ aDone' = aDone \cup {a}
         /\ UNCHANGED << a, w_l, w_h >>
    ELSE /\ \E na \in NextAs : a' = na
         /\ w_l' = 0
         /\ w_h' = 0
         /\ aDone' = aDone \cup {a}
         /\ UNCHANGED pc

\* An unchecked access outside the slice is undefined behaviour: "ub" stands
\* for every outcome the build can produce, and nothing is said of the state
\* after it.
UndefinedBehaviour ==
    /\ pc' = "ub"
    /\ UNCHANGED << data, acc, a, w_l, w_h, aDone >>

\* No bit_reverse16 call and no polynomial in this run.
BlkIdle == blk0 = << >> /\ blk = << >> /\ prevBlk = << >> /\ rnd = 0 /\ out16 = << >>

PolyIdle == poly = << >> /\ ie = << >> /\ point = << >> /\ result = << >> /\ ppc = "none"

\* No bit_reverse_m31 call in this run.
MainIdle ==
    /\ len = 0 /\ seed = 0 /\ data = << >> /\ pc = "none" /\ calls = 0
    /\ log_size = 0 /\ a_bits = 0 /\ a = 0 /\ w_l = 0 /\ w_h = 0 /\ aDone = {}
    /\ sched = "seq" /\ acc = << >> /\ lastAcc = {}

Init ==
    /\ len \in ValidLens(MaxLogSize) \cup InvalidLens
    /\ seed \in 0 .. MaxSeed
    /\ data = InputData(len, seed)
    /\ pc = "entry"
    /\ calls = 0
    /\ log_size = 0 /\ a_bits = 0
    /\ a = 0 /\ w_l = 0 /\ w_h = 0
    /\ aDone = {}
    /\ sched = "seq"
    /\ acc = NoAccess(len)
    /\ lastAcc = {}
    /\ BlkIdle
    /\ PolyIdle

\* An entry assertion fails: the call panics.
AssertFail ==
    /\ pc = "entry"
    /\ ~EntryAssertions(len)
    /\ pc' = "panic"
    /\ calls' = calls + 1
    /\ UNCHANGED << len, seed, data, log_size, a_bits, a, w_l, w_h, aDone, sched,
                    acc, lastAcc >>
    /\ UNCHANGED << blkVars, polyVars >>

\* Both assertions pass: the locals are set and the loops begin.  A negative
\* a_bits is the u32 subtraction underflowing (a panic in a debug build, a
\* wrapped value otherwise): "overflow" stands for either.
Enter ==
    /\ pc = "entry"
    /\ EntryAssertions(len)
    /\ calls' = calls + 1
    /\ log_size' = Ilog2(len)
    /\ a_bits' = ABits(log_size')
    /\ IF a_bits' < 0
       THEN pc' = "overflow" /\ a' = 0
       ELSE pc' = "loop" /\ \E fa \in FirstAs(a_bits') : a' = fa
    /\ w_l' = 0 /\ w_h' = 0
    /\ aDone' = {}
    /\ acc' = NoAccess(len)
    /\ lastAcc' = {}
    /\ UNCHANGED << len, seed, data, sched >>
    /\ UNCHANGED << blkVars, polyVars >>

\* Iteration with idx > idx_rev: `continue`.
StepSkip ==
    /\ pc = "loop"
    /\ LET idx == BlockIdx(w_h, a, w_l, a_bits)
           idxRev == BlockIdxRev(idx, log_size)
       IN  /\ SkipTest(idx, idxRev)
           /\ lastAcc' = {}
           /\ Advance
    /\ UNCHANGED << len, seed, data, calls, log_size, a_bits, sched, acc >>
    /\ UNCHANGED << blkVars, polyVars >>

\* Iteration with idx = idx_rev: the block is bit-reversed in place.
StepPalindrome ==
    /\ pc = "loop"
    /\ LET idx == BlockIdx(w_h, a, w_l, a_bits)
           idxRev == BlockIdxRev(idx, log_size)
           values0 == bit_reverse16(ReadChunk(data, idx, a_bits))
       IN  /\ ~SkipTest(idx, idxRev)
           /\ idx = idxRev
           /\ lastAcc' = ChunkIndices(idx, a_bits)
           /\ IF InBounds(lastAcc', len)
              THEN /\ data' = StoreChunk(data, idx, values0, a_bits, 0)
                   /\ acc' = LogWrite(LogRead(acc, idx, a_bits, a, 0), idx, a_bits, a, 0)
                   /\ Advance
              ELSE UndefinedBehaviour
    /\ UNCHANGED << len, seed, calls, log_size, a_bits, sched >>
    /\ UNCHANGED << blkVars, polyVars >>

\* Iteration with idx < idx_rev: both blocks are bit-reversed and exchanged.
StepSwap ==
    /\ pc = "loop"
    /\ LET idx == BlockIdx(w_h, a, w_l, a_bits)
           idxRev == BlockIdxRev(idx, log_size)
           values0 == bit_reverse16(ReadChunk(data, idx, a_bits))
           values1 == bit_reverse16(ReadChunk(data, idxRev, a_bits))
       IN  /\ ~SkipTest(idx, idxRev)
           /\ idx # idxRev
           /\ lastAcc' = ChunkIndices(idx, a_bits) \cup ChunkIndices(idxRev, a_bits)
           /\ IF InBounds(lastAcc', len)
              THEN /\ data' = StoreSwap(data, idx, idxRev, values0, values1, a_bits, 0)
                   /\ acc' = LogWrite(LogWrite(LogRead(LogRead(acc, idx, a_bits, a, 0),
                                                       idxRev, a_bits, a, 0),
                                               idx, a_bits, a, 0),
                                      idxRev, a_bits, a, 0)
                   /\ Advance
              ELSE UndefinedBehaviour
    /\ UNCHANGED << len, seed, calls, log_size, a_bits, sched >>
    /\ UNCHANGED << blkVars, polyVars >>

\* The caller applies bit_reverse_m31 to the same slice once more.
CallAgain ==
    /\ pc = "done"
    /\ calls < MaxCalls
    /\ pc' = "entry"
    /\ UNCHANGED << len, seed, data, calls, log_size, a_bits, a, w_l, w_h, aDone,
                    sched, acc, lastAcc >>
    /\ UNCHANGED << blkVars, polyVars >>

Next ==
    \/ AssertFail
    \/ Enter
    \/ StepSkip
    \/ StepPalindrome
    \/ StepSwap
    \/ CallAgain

Spec == Init /\ [][Next]_vars

\* ------------------------------------------------------------------------
\* The a-iterations of bit_reverse_m31 run in any order
\* ------------------------------------------------------------------------
InitPar ==
    /\ len \in ValidLens(MaxParLogSize)
    /\ seed = 0
    /\ data = InputData(len, seed)
    /\ pc = "entry"
    /\ calls = 0
    /\ log_size = 0 /\ a_bits = 0
    /\ a = 0 /\ w_l = 0 /\ w_h = 0
    /\ aDone = {}
    /\ sched = "any"
    /\ acc = NoAccess(len)
    /\ lastAcc = {}
    /\ BlkIdle
    /\ PolyIdle

NextPar ==
    \/ Enter
    \/ StepSkip
    \/ StepPalindrome
    \/ StepSwap

SpecPar == InitPar /\ [][NextPar]_vars

\* ------------------------------------------------------------------------
\* bit_reverse16 on its own
\* ------------------------------------------------------------------------
Init16 ==
    /\ \E s \in 0 .. MaxBlockSeed : blk0 = InputBlock(s)
    /\ blk = blk0
    /\ prevBlk = blk0
    /\ rnd = 0
    /\ out16 = << >>
    /\ MainIdle
    /\ PolyIdle

\* One iteration of `for _ in 0..4`.
RoundStep ==
    /\ blk0 # << >>
    /\ rnd < 4
    /\ prevBlk' = blk
    /\ blk' = Round(blk)
    /\ rnd' = rnd + 1
    /\ UNCHANGED << blk0, out16 >>
    /\ UNCHANGED << mainVars, polyVars >>

\* The whole call bit_reverse16(blk0).
Call16 ==
    /\ blk0 # << >>
    /\ out16 = << >>
    /\ out16' = bit_reverse16(blk0)
    /\ UNCHANGED << blk0, blk, prevBlk, rnd >>
    /\ UNCHANGED << mainVars, polyVars >>

Next16 ==
    \/ RoundStep
    \/ Call16

Spec16 == Init16 /\ [][Next16]_vars

\* ------------------------------------------------------------------------
\* ConstantPolynomial
\* ------------------------------------------------------------------------
\* The tuple struct ConstantPolynomial(SecureField).
ConstantPolynomial(c) == << c >>

\* ConstantPolynomial::one()
PolyOne == ConstantPolynomial(SecureOne)

\* A plausible slip: the point's first coordinate is returned.
PolyEvalAtPoint(self, interaction_elements, pt) ==
    IF Len(pt) > 0 THEN pt[1] ELSE self[1]

\* <ConstantPolynomial as MultilinearPolynomial>::eval
PolyEval(self, interaction_elements, pt) == self[1]

InitPoly ==
    /\ poly = << >> /\ ie = << >> /\ point = << >> /\ result = << >>
    /\ ppc = "start"
    /\ MainIdle
    /\ BlkIdle

NewPoly ==
    /\ ppc = "start"
    /\ \E c \in SecureVals : poly' = ConstantPolynomial(c)
    /\ ppc' = "built"
    /\ UNCHANGED << ie, point, result >>
    /\ UNCHANGED << mainVars, blkVars >>

NewOne ==
    /\ ppc = "start"
    /\ poly' = PolyOne
    /\ ppc' = "builtOne"
    /\ UNCHANGED << ie, point, result >>
    /\ UNCHANGED << mainVars, blkVars >>

Eval ==
    /\ ppc \in {"built", "builtOne"}
    /\ \E i \in InteractionElementsVals, p \in SeqsUpTo(PointVals, MaxPointLen) :
          /\ ie' = i
          /\ point' = p
          /\ result' = PolyEval(poly, i, p)
    /\ ppc' = IF ppc = "built" THEN "evaluated" ELSE "evaluatedOne"
    /\ UNCHANGED poly
    /\ UNCHANGED << mainVars, blkVars >>

NextPoly ==
    \/ NewPoly
    \/ NewOne
    \/ Eval

SpecPoly == InitPoly /\ [][NextPoly]_vars

\* ------------------------------------------------------------------------
\* Properties
\* ------------------------------------------------------------------------
\* Reference bit reversal of the n low bits of i (most significant first).
RECURSIVE RevAcc(_, _, _)
RevAcc(i, n, r) == IF n = 0 THEN r ELSE RevAcc(i \div 2, n - 1, 2 * r + (i % 2))

RefRev(i, n) == RevAcc(i, n, 0)

\* Element e of the unpacked view of a slice of lanes.
Elem(d, e) == d[e \div N_LANES][e % N_LANES]

\* The slice as it was before the first call.
input == InputData(len, seed)

\* The lengths the contract accepts: 2^k lanes with k >= 10.
ValidLen(n) == \E k \in 10 .. 30 : n = 2 ^ k

\* C1: after one call of bit_reverse_m31 on 2^n lanes (n >= 10), element i of
\* the unpacked result is element bitrev_{n+4}(i) of the unpacked input, for
\* every i in [0, 2^(n+4)).
C1_ElementBitReversal ==
    (pc = "done" /\ calls = 1) =>
        \A e \in 0 .. (N_LANES * len - 1) :
            Elem(data, e) = Elem(input, RefRev(e, Ilog2(len) + 4))

C1_Witness ==
    /\ pc = "done" /\ calls = 1 /\ len = 2 ^ MIN_LOG_SIZE
    /\ Elem(input, 1) = 1
    /\ Elem(data, 1) = (N_LANES * len) \div 2

\* C2: applying bit_reverse_m31 twice to a valid slice restores its original
\* contents.
C2_Involution ==
    (pc = "done" /\ calls = 2) => data = input

C2_Witness ==
    pc = "done" /\ calls = 2 /\ len = 2 ^ MIN_LOG_SIZE /\ seed = 0 /\ data = input

\* C3: a length that is not a power of two (0 included) or is below 2^10 makes
\* the call panic with no lane read or written and data unchanged; a length
\* 2^k with k >= 10 never panics.
C3_EntryAssertions ==
    /\ pc = "panic" => (~ValidLen(len) /\ data = input /\ acc = NoAccess(len))
    /\ (calls > 0 /\ ~ValidLen(len)) => pc = "panic"
    /\ ValidLen(len) => pc # "panic"

C3_Witness ==
    pc = "panic" /\ len = 1536 /\ data = input

\* C4: bit_reverse16 of a block of 16 lanes returns the block whose element i
\* (index 16*lane + position) is the input's element bitrev_8(i), for every i
\* in [0, 256).
C4_Block16Reversal ==
    out16 # << >> =>
        \A e \in 0 .. 255 : Elem(out16, e) = Elem(blk0, RefRev(e, 8))

C4_Witness ==
    /\ out16 # << >>
    /\ blk0 = InputBlock(0)
    /\ Elem(out16, 1) = 128

\* C5 as claimed: lane i of the result is lane bitrev_n(i) of the input,
\* for every lane index i in [0, 2^n).
C5_LaneBitReversal ==
    (pc = "done" /\ calls = 1) =>
        \A i \in 0 .. (len - 1) : data[i] = input[RefRev(i, Ilog2(len))]

\* C5 as amended: the reversal acts on the (n+4)-bit element index 16*i + j,
\* so position j of result lane i holds position bitrev_n(i) mod 16 of input
\* lane bitrev_4(j) * 2^(n-4) + bitrev_n(i) div 16.
C5_LaneOfElementReversal ==
    (pc = "done" /\ calls = 1) =>
        LET n == Ilog2(len)
        IN  \A i \in 0 .. (len - 1) :
                LET ri == RefRev(i, n)
                IN  \A j \in Lane :
                        data[i][j] = input[RefRev(j, 4) * (2 ^ (n - 4)) + (ri \div 16)][ri % 16]

C5_Witness ==
    /\ pc = "done" /\ calls = 1 /\ len = 2 ^ MIN_LOG_SIZE
    /\ data[1] # input[RefRev(1, MIN_LOG_SIZE)]
    /\ data[1][0] = input[RefRev(1, MIN_LOG_SIZE) \div 16][RefRev(1, MIN_LOG_SIZE) % 16]

\* C6: no lane is read or written by two different iterations of the a-loop
\* (no lane an iteration touches was touched by another one, and at the end
\* every lane belongs to exactly one iteration), and running the a-iterations
\* out of program order ends with the same array as the sequential loop (the
\* element-level bit reversal of the input).
C6_AIterationsIndependent ==
    /\ \A l \in lastAcc : l \in DOMAIN acc => Cardinality(acc[l].by) <= 1
    /\ pc = "done" => \A l \in DOMAIN acc : Cardinality(acc[l].by) = 1
    /\ pc = "done" =>
           \A e \in 0 .. (N_LANES * len - 1) :
               Elem(data, e) = Elem(input, RefRev(e, Ilog2(len) + 4))

\* Iteration a = 1 ran before iteration a = 0, each touched its own lanes, and
\* the run has ended.
C6_Witness ==
    /\ pc = "done" /\ sched = "any" /\ a_bits = 1
    /\ a = 0 /\ aDone = {0, 1}
    /\ acc[0].by = {0} /\ acc[8].by = {1}

\* C7: ConstantPolynomial(c).eval(interaction_elements, point) is c for every
\* point of length 0..8 and every interaction_elements; one() evaluates to 1.
C7_ConstantEval ==
    ppc \in {"evaluated", "evaluatedOne"} =>
        /\ result = poly[1]
        /\ ppc = "evaluatedOne" => result = << 1, 0, 0, 0 >>

C7_Witness ==
    /\ ppc = "evaluated" /\ Len(point) = 8 /\ point[1] # poly[1]
    /\ ie # << >> /\ result = << 2, 3, 5, 7 >>

\* C8: one round of bit_reverse16 moves the element at lane L, position p
\* (abcd:0123) to lane 8*(p div 8) + L div 2, position 2*(p mod 8) + L mod 2
\* (0abc:123d); output lane j < 8 interleaves the low halves of input lanes 2j
\* and 2j+1, output lane 8+j their high halves.
C8_RoundPermutation ==
    rnd >= 1 =>
        /\ \A L \in Lane, p \in Lane :
               blk[8 * (p \div 8) + (L \div 2)][2 * (p % 8) + (L % 2)] = prevBlk[L][p]
        /\ \A j \in 0 .. 7, k \in 0 .. 7 :
               /\ blk[j][2 * k] = prevBlk[2 * j][k]
               /\ blk[j][2 * k + 1] = prevBlk[2 * j + 1][k]
               /\ blk[8 + j][2 * k] = prevBlk[2 * j][8 + k]
               /\ blk[8 + j][2 * k + 1] = prevBlk[2 * j + 1][8 + k]

C8_Witness ==
    /\ rnd = 1 /\ blk0 = InputBlock(0)
    /\ blk[0][1] = 16 /\ blk[8][0] = 8

\* C9: in one run every lane is read at most once and written at most once
\* (the lanes an iteration touches were not touched before), and at the end
\* exactly once: every block is processed in exactly one iteration; a
\* palindromic block ends as the bit_reverse16 of itself, any other block as
\* the bit_reverse16 of its partner.
C9_EachBlockOnce ==
    /\ \A l \in lastAcc : l \in DOMAIN acc => (acc[l].rd <= 1 /\ acc[l].wr <= 1)
    /\ pc = "done" => \A l \in DOMAIN acc : acc[l].rd = 1 /\ acc[l].wr = 1
    /\ (pc = "done" /\ calls = 1) =>
           \A b \in 0 .. (2 ^ (log_size - VEC_BITS) - 1) :
               LET br == RefRev(b, log_size - VEC_BITS)
               IN  \A i \in Lane :
                       data[b + i * 2 ^ (log_size - VEC_BITS)] =
                           bit_reverse16([k \in Lane |->
                               input[br + k * 2 ^ (log_size - VEC_BITS)]])[i]

\* The end of a run with palindromic (block 0) and swapped (blocks 1 and 32)
\* iterations.
C9_Witness ==
    /\ pc = "done" /\ calls = 1 /\ log_size = MIN_LOG_SIZE
    /\ acc[0].rd = 1 /\ acc[1].wr = 1 /\ acc[32].wr = 1
    /\ data[0] # input[0] /\ data[1] # input[1]

\* C10: for every accepted length a_bits = log_size - 10 is not negative and
\* every index passed to get_unchecked / get_unchecked_mut is in [0, len).
C10_AccessesInBounds ==
    /\ pc \notin {"ub", "overflow"}
    /\ pc \in {"loop", "done"} => (a_bits >= 0 /\ a_bits = Ilog2(len) - 10)
    /\ \A x \in lastAcc : 0 <= x /\ x < len

\* The last lane of the slice is accessed.
C10_Witness ==
    /\ len = 2 ^ MIN_LOG_SIZE /\ a_bits = 0
    /\ (len - 1) \in lastAcc /\ Cardinality(lastAcc) = 16

\* C11 as claimed: for 2^n lanes, |a| = n - 2*W_BITS, and the a-loop ranges
\* over exactly 2^(n - 2*W_BITS) values of a.
C11_ABitsWithoutVecBits ==
    /\ pc \in {"loop", "done"} => a_bits = Ilog2(len) - 2 * 3
    /\ pc = "done" => aDone = 0 .. (2 ^ (Ilog2(len) - 2 * 3) - 1)

\* C11 as amended: for 2^n lanes the element index v_h | w_h | a | w_l | v_l has
\* n + 4 bits with |v_h| = |v_l| = 4, |w_h| = |w_l| = 3 and |a| = n - 2*3 - 4:
\* the loop counters stay within these widths, every lane touched is
\* v_h * 2^(n-4) + (w_h | a | w_l) for a 4-bit v_h, and the a-loop ranges over
\* exactly the 2^(n - 10) values of a.
C11_IndexDecomposition ==
    LET n == Ilog2(len)
    IN  /\ pc \in {"loop", "done"} =>
               /\ a_bits = n - 2 * 3 - 4
               /\ 4 + 3 + a_bits + 3 + 4 = n + 4
               /\ w_l \in 0 .. (2 ^ 3 - 1)
               /\ w_h \in 0 .. (2 ^ 3 - 1)
               /\ a \in 0 .. (2 ^ (n - 10) - 1)
               /\ aDone \subseteq 0 .. (2 ^ (n - 10) - 1)
               /\ \A x \in lastAcc :
                      /\ x \div (2 ^ (n - 4)) \in 0 .. (2 ^ 4 - 1)
                      /\ (x % (2 ^ (n - 4))) \div (2 ^ (n - 7)) \in 0 .. (2 ^ 3 - 1)
        /\ pc = "done" => aDone = 0 .. (2 ^ (n - 10) - 1)

\* The end of a run over 2^11 lanes: the a-loop ran a = 0 and a = 1.
C11_Witness ==
    /\ pc = "done" /\ calls = 1 /\ sched = "seq"
    /\ len = 2 ^ 11 /\ a_bits = 1 /\ aDone = {0, 1}

====
